---------------------------- MODULE Spec2Model ----------------------------
(***************************************************************************)
(* A model of the gonexmo client binding: the messaging resource           *)
(* (src/sms.go: SMSMessage.ToValues, SMS.Send) and the number-management   *)
(* resource (src/unnamed/part_000: SearchAvailable[WithOptions],           *)
(* BuyPhoneNumber, CancelPhoneNumber).                                     *)
(*                                                                         *)
(* Go strings are TLA+ strings, a []byte is a sequence of byte values, a   *)
(* url.Values is a function from its keys to the sequence of values added  *)
(* under each key, an error is the string of its message, and the Go nil   *)
(* is the model value Nil.  A caller is a goroutine; the message the       *)
(* callers pass to Send is one heap object (Send takes a *SMSMessage).     *)
(***************************************************************************)
EXTENDS Integers, Sequences, FiniteSets, TLC

VARIABLES
    msg,      \* the SMSMessage the callers hand to Send (by pointer)
    pc,       \* pc[p]: where caller p stands in the call it is running
    call,     \* call[p]: the operation p runs and its arguments
    vals,     \* vals[p]: the local url.Values of p's Send (messageValues)
    form,     \* form[p]: the local encodedForm of p's Send
    req,      \* req[p]: the http.Request p's call handed to client.Do, or Nil
    reply,    \* reply[p]: what client.Do answered p's call
    ret,      \* ret[p]: what p's call returned: [val |-> ..., err |-> ...]
    crashed   \* TRUE once an unrecovered panic has ended the process

vars == <<msg, pc, call, vals, form, req, reply, ret, crashed>>

Nil == "<nil>"

----------------------------------------------------------------------------
(* Strings, bytes and the library conversions the handlers call.           *)

\* The printable ASCII characters in code order, in two runs: the character
\* with byte value b stands at position b - 31 of AsciiLow (32..95) or at
\* position b - 96 of AsciiHigh (97..126).  Byte 96 is outside the alphabet.
AsciiLow ==
    " !\"#$%&'()*+,-./0123456789:;<=>?@ABCDEFGHIJKLMNOPQRSTUVWXYZ[\\]^_"

AsciiHigh == "abcdefghijklmnopqrstuvwxyz{|}~"

Chr(b) ==
    IF b <= 95 THEN SubSeq(AsciiLow, b - 31, b - 31)
    ELSE SubSeq(AsciiHigh, b - 96, b - 96)

Bytes == (32..95) \cup (97..126)

\* The byte value of each character of the alphabet.
OrdTable == [c \in {Chr(b) : b \in Bytes} |-> CHOOSE b \in Bytes : Chr(b) = c]

Ord(c) == OrdTable[c]

HexDigits == "0123456789ABCDEF"

HexDigit(n) == SubSeq(HexDigits, n + 1, n + 1)

\* net/url shouldEscape in encodeQueryComponent mode: letters, digits and
\* - _ . ~ pass; everything else is escaped.
Unreserved(c) ==
    LET b == Ord(c)
    IN  \/ (b >= 48 /\ b <= 57)
        \/ (b >= 65 /\ b <= 90)
        \/ (b >= 97 /\ b <= 122)
        \/ c \in {"-", "_", ".", "~"}

EscapeChar(c) ==
    IF c = " " THEN "+"
    ELSE IF Unreserved(c) THEN c
    ELSE "%" \o HexDigit(Ord(c) \div 16) \o HexDigit(Ord(c) % 16)

\* url.QueryEscape: every character escaped in place (the string is taken
\* by halves).
RECURSIVE QueryEscape(_)
QueryEscape(s) ==
    IF s = "" THEN ""
    ELSE IF Len(s) = 1 THEN EscapeChar(s)
    ELSE QueryEscape(SubSeq(s, 1, Len(s) \div 2))
         \o QueryEscape(SubSeq(s, Len(s) \div 2 + 1, Len(s)))

\* strconv.Itoa
RECURSIVE Itoa(_)
Itoa(n) ==
    IF n < 0 THEN "-" \o Itoa(0 - n)
    ELSE IF n < 10 THEN Chr(48 + n)
    ELSE Itoa(n \div 10) \o Chr(48 + (n % 10))

\* The Go conversion string(b) of a []byte.
RECURSIVE BytesToString(_)
BytesToString(b) ==
    IF b = <<>> THEN "" ELSE Chr(Head(b)) \o BytesToString(Tail(b))

\* Go's < on strings: bytewise lexicographic.
RECURSIVE StringLess(_, _)
StringLess(a, b) ==
    IF b = "" THEN FALSE
    ELSE IF a = "" THEN TRUE
    ELSE IF Head(a) = Head(b) THEN StringLess(Tail(a), Tail(b))
    ELSE Ord(Head(a)) < Ord(Head(b))

\* url.Values{}
EmptyValues == [k \in {} |-> <<>>]

\* url.Values.Add
Add(v, key, value) ==
    IF key \in DOMAIN v
    THEN [v EXCEPT ![key] = Append(@, value)]
    ELSE [k \in DOMAIN v \cup {key} |-> IF k = key THEN <<value>> ELSE v[k]]

\* sort.Strings over the keys of a url.Values
RECURSIVE SortedKeys(_)
SortedKeys(S) ==
    IF S = {} THEN <<>>
    ELSE LET m == CHOOSE x \in S : \A y \in S \ {x} : StringLess(x, y)
         IN  <<m>> \o SortedKeys(S \ {m})

RECURSIVE EncodeKey(_, _)
EncodeKey(key, vs) ==
    IF vs = <<>> THEN <<>>
    ELSE <<QueryEscape(key) \o "=" \o QueryEscape(Head(vs))>>
         \o EncodeKey(key, Tail(vs))

RECURSIVE EncodePairs(_, _)
EncodePairs(v, keys) ==
    IF keys = <<>> THEN <<>>
    ELSE EncodeKey(Head(keys), v[Head(keys)]) \o EncodePairs(v, Tail(keys))

RECURSIVE JoinAmp(_)
JoinAmp(pairs) ==
    IF pairs = <<>> THEN ""
    ELSE IF Len(pairs) = 1 THEN Head(pairs)
    ELSE Head(pairs) \o "&" \o JoinAmp(Tail(pairs))

\* url.Values.Encode: "k=v&k=v", keys sorted, keys and values escaped.
Encode(v) == JoinAmp(EncodePairs(v, SortedKeys(DOMAIN v)))

----------------------------------------------------------------------------
(* The client configuration.  The Client type, its constructor and apiRoot *)
(* are declared outside the files modelled here; they are modelled from    *)
(* their uses (c.client.apiKey, c.client.apiSecret, c.client.useOauth).    *)

ApiRoot == "https://rest.nexmo.com"

ClientA == [apiKey |-> "keyA", apiSecret |-> "secretA", useOauth |-> FALSE]
ClientB == [apiKey |-> "keyB", apiSecret |-> "secretB", useOauth |-> FALSE]
ClientO == [apiKey |-> "keyO", apiSecret |-> "secretO", useOauth |-> TRUE]

Clients == {ClientA, ClientB, ClientO}

----------------------------------------------------------------------------
(* The messaging resource: src/sms.go                                      *)

Text == "text"
Binary == "binary"
WAPPush == "wappush"
Unicode == "unicode"
VCal == "vcal"
VCard == "vcard"

\* message classes (iota)
Flash == 0
Standard == 1

MaxClientRefLen == 40

\* ToValues with the test on msg.Text dropped: text is added even when empty.
ToValuesAlwaysText(m) ==
    LET v0 == Add(Add(Add(EmptyValues, "from", m.From), "to", m.To), "type", m.Type)
        v1 == Add(v0, "text", m.Text)
        v2 == IF m.StatusReportRequired # 0
              THEN Add(v1, "status-report-req", Itoa(m.StatusReportRequired))
              ELSE v1
        v3 == IF m.ClientReference # ""
              THEN Add(v2, "client-ref", m.ClientReference) ELSE v2
        v4 == IF m.NetworkCode # "" THEN Add(v3, "network-code", m.NetworkCode) ELSE v3
        v5 == IF m.VCard # "" THEN Add(v4, "vcard", m.VCard) ELSE v4
        v6 == IF m.VCal # "" THEN Add(v5, "vcal", m.VCal) ELSE v5
        v7 == IF m.TTL # 0 THEN Add(v6, "ttl", Itoa(m.TTL)) ELSE v6
        v8 == IF Len(m.Body) > 0 THEN Add(v7, "body", BytesToString(m.Body)) ELSE v7
        v9 == IF Len(m.UDH) > 0 THEN Add(v8, "udh", BytesToString(m.UDH)) ELSE v8
    IN  v9

\* SMSMessage.ToValues
ToValues(m) ==
    LET v0 == Add(Add(Add(EmptyValues, "from", m.From), "to", m.To), "type", m.Type)
        v1 == IF m.Text # "" THEN Add(v0, "text", m.Text) ELSE v0
        v2 == IF m.StatusReportRequired # 0
              THEN Add(v1, "status-report-req", Itoa(m.StatusReportRequired))
              ELSE v1
        v3 == IF m.ClientReference # ""
              THEN Add(v2, "client-ref", m.ClientReference) ELSE v2
        v4 == IF m.NetworkCode # "" THEN Add(v3, "network-code", m.NetworkCode) ELSE v3
        v5 == IF m.VCard # "" THEN Add(v4, "vcard", m.VCard) ELSE v4
        v6 == IF m.VCal # "" THEN Add(v5, "vcal", m.VCal) ELSE v5
        v7 == IF m.TTL # 0 THEN Add(v6, "ttl", Itoa(m.TTL)) ELSE v6
        v8 == IF Len(m.Body) > 0 THEN Add(v7, "body", BytesToString(m.Body)) ELSE v7
        v9 == IF Len(m.UDH) > 0 THEN Add(v8, "udh", BytesToString(m.UDH)) ELSE v8
    IN  v9

\* The general checks with the length test off by one (>= for >).
SendGeneralCheckOffByOne(m) ==
    IF Len(m.From) <= 0 THEN "Invalid From field specified"
    ELSE IF Len(m.To) <= 0 THEN "Invalid To field specified"
    ELSE IF Len(m.ClientReference) >= MaxClientRefLen THEN "Client reference too long"
    ELSE Nil

\* SMS.Send, the checks on From, To and ClientReference: the error returned,
\* or Nil when all three pass.
SendGeneralCheck(m) ==
    IF Len(m.From) <= 0 THEN "Invalid From field specified"
    ELSE IF Len(m.To) <= 0 THEN "Invalid To field specified"
    ELSE IF Len(m.ClientReference) > MaxClientRefLen THEN "Client reference too long"
    ELSE Nil

\* The switch on msg.Type with the binary test requiring both fields to be
\* missing (&& for ||).
SendTypeCheckBinaryBoth(m) ==
    CASE m.Type = Text -> Nil
      [] m.Type = Unicode ->
            IF Len(m.Text) <= 0 THEN "Invalid message text" ELSE Nil
      [] m.Type = Binary ->
            IF Len(m.UDH) = 0 /\ Len(m.Body) = 0
            THEN "Invalid binary message" ELSE Nil
      [] m.Type = WAPPush ->
            IF Len(m.URL) = 0 \/ Len(m.Title) = 0
            THEN "Invalid WAP Push parameters" ELSE Nil
      [] OTHER -> Nil

\* SMS.Send, the switch on msg.Type: the error returned, or Nil.
SendTypeCheck(m) ==
    CASE m.Type = Text -> Nil
      [] m.Type = Unicode ->
            IF Len(m.Text) <= 0 THEN "Invalid message text" ELSE Nil
      [] m.Type = Binary ->
            IF Len(m.UDH) = 0 \/ Len(m.Body) = 0
            THEN "Invalid binary message" ELSE Nil
      [] m.Type = WAPPush ->
            IF Len(m.URL) = 0 \/ Len(m.Title) = 0
            THEN "Invalid WAP Push parameters" ELSE Nil
      [] OTHER -> Nil

\* A *MessageResponse: the nil pointer, or a decoded response.
NilMessageResponse == [nil |-> TRUE, MessageCount |-> 0, Messages |-> <<>>]

SendBodyOK ==
    "{\"message-count\":\"1\",\"messages\":[{\"status\":\"0\",\"message-id\":\"0A\",\"to\":\"b\"}]}"

SendBodyRejected ==
    "{\"message-count\":\"1\",\"messages\":[{\"status\":\"4\",\"error-text\":\"Bad Credentials\"}]}"

BodyNotJSON == "<html>"

\* json.Unmarshal(body, &messageResponse), on the bodies the model's server
\* sends: [val |-> the pointer after the call, err |-> the error or Nil].
UnmarshalMessageResponse(body) ==
    CASE body = SendBodyOK ->
            [val |-> [nil |-> FALSE, MessageCount |-> 1,
                      Messages |-> <<[Status |-> 0, MessageID |-> "0A", To |-> "b",
                                      ErrorText |-> ""]>>],
             err |-> Nil]
      [] body = SendBodyRejected ->
            [val |-> [nil |-> FALSE, MessageCount |-> 1,
                      Messages |-> <<[Status |-> 4, MessageID |-> "", To |-> "",
                                      ErrorText |-> "Bad Credentials"]>>],
             err |-> Nil]
      [] OTHER ->
            [val |-> NilMessageResponse,
             err |-> "invalid character '<' looking for beginning of value"]

----------------------------------------------------------------------------
(* The state of a caller, and what the network answers.                    *)

NoOpts == [Pattern |-> "", SearchPattern |-> ""]

NoCall == [op |-> "none", client |-> ClientA, country |-> "", number |-> "",
           opts |-> NoOpts]

NoRequest == [method |-> "", url |-> "", body |-> "", accept |-> "",
              contentType |-> ""]

\* What client.Do returns: err is the error or Nil, respNil says whether the
\* *http.Response is nil, StatusCode and Body are the response's.
NoReply == [err |-> Nil, respNil |-> TRUE, StatusCode |-> 0, Body |-> ""]

NoReturn == [returned |-> FALSE]

\* The connection failed: no response, an error.
Refused == [err |-> "dial tcp: connection refused", respNil |-> TRUE,
            StatusCode |-> 0, Body |-> ""]

\* The redirect policy stopped the request: client.Do returns the last
\* response together with the error.
TooManyRedirects == [err |-> "stopped after 10 redirects", respNil |-> FALSE,
                     StatusCode |-> 302, Body |-> ""]

Response(status, body) ==
    [err |-> Nil, respNil |-> FALSE, StatusCode |-> status, Body |-> body]

----------------------------------------------------------------------------
(* SMS.Send(msg), step by step.  The steps that read or write the shared   *)
(* message are separate actions, so that calls of several callers          *)
(* interleave between them.                                                *)

Returned(v, e) == [returned |-> TRUE, val |-> v, err |-> e]

\* The validation of the message; on failure Send returns here.
SendValidate(p, c) ==
    /\ ~crashed
    /\ pc[p] = "idle"
    /\ call' = [call EXCEPT ![p] = [NoCall EXCEPT !.op = "Send", !.client = c]]
    /\ IF SendGeneralCheck(msg) # Nil
       THEN /\ pc' = [pc EXCEPT ![p] = "done"]
            /\ ret' = [ret EXCEPT ![p] = Returned(NilMessageResponse, SendGeneralCheck(msg))]
       ELSE IF SendTypeCheck(msg) # Nil
       THEN /\ pc' = [pc EXCEPT ![p] = "done"]
            /\ ret' = [ret EXCEPT ![p] = Returned(NilMessageResponse, SendTypeCheck(msg))]
       ELSE /\ pc' = [pc EXCEPT ![p] = "stampKey"]
            /\ ret' = ret
    /\ UNCHANGED <<msg, vals, form, req, reply, crashed>>

\* if !c.client.useOauth { msg.apiKey = c.client.apiKey
SendStampKey(p) ==
    /\ ~crashed
    /\ pc[p] = "stampKey"
    /\ IF ~call[p].client.useOauth
       THEN /\ msg' = [msg EXCEPT !.apiKey = call[p].client.apiKey]
            /\ pc' = [pc EXCEPT ![p] = "stampSecret"]
       ELSE /\ msg' = msg
            /\ pc' = [pc EXCEPT ![p] = "toValues"]
    /\ UNCHANGED <<call, vals, form, req, reply, ret, crashed>>

\* msg.apiSecret = c.client.apiSecret }
SendStampSecret(p) ==
    /\ ~crashed
    /\ pc[p] = "stampSecret"
    /\ msg' = [msg EXCEPT !.apiSecret = call[p].client.apiSecret]
    /\ pc' = [pc EXCEPT ![p] = "toValues"]
    /\ UNCHANGED <<call, vals, form, req, reply, ret, crashed>>

\* messageValues := msg.ToValues()
SendToValues(p) ==
    /\ ~crashed
    /\ pc[p] = "toValues"
    /\ vals' = [vals EXCEPT ![p] = ToValues(msg)]
    /\ pc' = [pc EXCEPT ![p] = "addKey"]
    /\ UNCHANGED <<msg, call, form, req, reply, ret, crashed>>

\* messageValues.Add("api_key", msg.apiKey)
SendAddKey(p) ==
    /\ ~crashed
    /\ pc[p] = "addKey"
    /\ vals' = [vals EXCEPT ![p] = Add(@, "api_key", msg.apiKey)]
    /\ pc' = [pc EXCEPT ![p] = "addSecret"]
    /\ UNCHANGED <<msg, call, form, req, reply, ret, crashed>>

\* messageValues.Add("api_secret", msg.apiSecret)
\* encodedForm := messageValues.Encode()
SendAddSecret(p) ==
    /\ ~crashed
    /\ pc[p] = "addSecret"
    /\ vals' = [vals EXCEPT ![p] = Add(@, "api_secret", msg.apiSecret)]
    /\ form' = [form EXCEPT ![p] = Encode(Add(vals[p], "api_secret", msg.apiSecret))]
    /\ pc' = [pc EXCEPT ![p] = "do"]
    /\ UNCHANGED <<msg, call, req, reply, ret, crashed>>

\* The request Send builds from its local encodedForm.
SendRequest(encodedForm) ==
    [method |-> "POST", url |-> ApiRoot \o "/sms/json", body |-> encodedForm,
     accept |-> "application/json",
     contentType |-> "application/x-www-form-urlencoded"]

\* What Send returns once client.Do has answered o.
SendResult(o) ==
    IF o.err # Nil THEN Returned(NilMessageResponse, o.err)
    ELSE IF UnmarshalMessageResponse(o.Body).err # Nil
         THEN Returned(NilMessageResponse, UnmarshalMessageResponse(o.Body).err)
         ELSE Returned(UnmarshalMessageResponse(o.Body).val, Nil)

\* http.NewRequest, client.Do(r) answering o, and the rest of Send: none of
\* it touches the message.
SendDo(p, o) ==
    /\ ~crashed
    /\ pc[p] = "do"
    /\ req' = [req EXCEPT ![p] = SendRequest(form[p])]
    /\ reply' = [reply EXCEPT ![p] = o]
    /\ ret' = [ret EXCEPT ![p] = SendResult(o)]
    /\ pc' = [pc EXCEPT ![p] = "done"]
    /\ UNCHANGED <<msg, call, vals, form, crashed>>

\* The caller has its result and is free to make its next call.
Return(p) ==
    /\ ~crashed
    /\ pc[p] = "done"
    /\ pc' = [pc EXCEPT ![p] = "idle"]
    /\ call' = [call EXCEPT ![p] = NoCall]
    /\ vals' = [vals EXCEPT ![p] = EmptyValues]
    /\ form' = [form EXCEPT ![p] = ""]
    /\ req' = [req EXCEPT ![p] = NoRequest]
    /\ reply' = [reply EXCEPT ![p] = NoReply]
    /\ ret' = [ret EXCEPT ![p] = NoReturn]
    /\ UNCHANGED <<msg, crashed>>

\* A caller serializes the message itself: msg.ToValues().
ToValuesCall(p) ==
    /\ ~crashed
    /\ pc[p] = "idle"
    /\ call' = [call EXCEPT ![p] = [NoCall EXCEPT !.op = "ToValues"]]
    /\ vals' = [vals EXCEPT ![p] = ToValues(msg)]
    /\ pc' = [pc EXCEPT ![p] = "done"]
    /\ UNCHANGED <<msg, form, req, reply, ret, crashed>>

----------------------------------------------------------------------------
(* The number-management resource: src/unnamed/part_000.  A number call    *)
(* reads only its arguments and the client configuration, so each call is  *)
(* one action: validation, request, client.Do answering o, result.         *)

\* The zero NumberSearchResponse (the named result before it is assigned).
ZeroSearchResponse == [Count |-> 0, Numbers |-> <<>>]

SearchBodyOK ==
    "{\"count\":1,\"numbers\":[{\"country\":\"US\",\"msisdn\":\"12015550100\",\"type\":\"mobile-lvn\",\"features\":[\"SMS\"],\"cost\":\"0.67\"}]}"

\* json.Unmarshal(body, &response), on the bodies the model's server sends.
\* Cost is held in hundredths.
UnmarshalSearchResponse(body) ==
    CASE body = SearchBodyOK ->
            [val |-> [Count |-> 1,
                      Numbers |-> <<[Country |-> "US", MSISDN |-> "12015550100",
                                     Type |-> "mobile-lvn", Features |-> <<"SMS">>,
                                     Cost |-> 67]>>],
             err |-> Nil]
      [] body = "" ->
            [val |-> ZeroSearchResponse, err |-> "unexpected end of JSON input"]
      [] OTHER ->
            [val |-> ZeroSearchResponse,
             err |-> "invalid character '<' looking for beginning of value"]

\* requestUrl with the query appended when either option is set (|| for &&).
SearchUrlEither(c, countryCode, opts) ==
    LET base == ApiRoot \o "/number/search/" \o c.apiKey \o "/" \o c.apiSecret
                \o "/" \o countryCode
    IN  IF opts.Pattern # "" \/ opts.SearchPattern # ""
        THEN LET u == base \o "?pattern=" \o QueryEscape(opts.Pattern)
             IN  IF opts.SearchPattern # ""
                 THEN u \o "&search_pattern=" \o QueryEscape(opts.SearchPattern)
                 ELSE u
        ELSE base

\* requestUrl of SearchAvailableWithOptions
SearchUrl(c, countryCode, opts) ==
    LET base == ApiRoot \o "/number/search/" \o c.apiKey \o "/" \o c.apiSecret
                \o "/" \o countryCode
    IN  IF opts.Pattern # "" /\ opts.SearchPattern # ""
        THEN LET u == base \o "?pattern=" \o QueryEscape(opts.Pattern)
             IN  IF opts.SearchPattern # ""
                 THEN u \o "&search_pattern=" \o QueryEscape(opts.SearchPattern)
                 ELSE u
        ELSE base

GetRequest(u) ==
    [method |-> "GET", url |-> u, body |-> "", accept |-> "application/json",
     contentType |-> ""]

PostRequest(u) ==
    [method |-> "POST", url |-> u, body |-> "", accept |-> "application/json",
     contentType |-> ""]

\* Numbers.SearchAvailableWithOptions.  "defer resp.Body.Close()" stands
\* before the error check: with a nil resp it panics, and nothing recovers.
SearchCall(p, opName, c, countryCode, opts, o) ==
    /\ ~crashed
    /\ pc[p] = "idle"
    /\ call' = [call EXCEPT ![p] = [op |-> opName, client |-> c,
                                    country |-> countryCode, number |-> "",
                                    opts |-> opts]]
    /\ IF Len(countryCode) <= 0
       THEN /\ ret' = [ret EXCEPT ![p] =
                          Returned(ZeroSearchResponse,
                                   "Invalid country code field specified")]
            /\ pc' = [pc EXCEPT ![p] = "done"]
            /\ UNCHANGED <<req, reply, crashed>>
       ELSE /\ req' = [req EXCEPT ![p] = GetRequest(SearchUrl(c, countryCode, opts))]
            /\ reply' = [reply EXCEPT ![p] = o]
            /\ IF o.respNil
               THEN /\ pc' = [pc EXCEPT ![p] = "panic"]
                    /\ crashed' = TRUE
                    /\ ret' = ret
               ELSE /\ pc' = [pc EXCEPT ![p] = "done"]
                    /\ crashed' = crashed
                    /\ ret' = [ret EXCEPT ![p] =
                                  IF o.err # Nil
                                  THEN Returned(ZeroSearchResponse, o.err)
                                  ELSE Returned(UnmarshalSearchResponse(o.Body).val,
                                                UnmarshalSearchResponse(o.Body).err)]
    /\ UNCHANGED <<msg, vals, form>>

SearchAvailableWithOptions(p, c, countryCode, opts, o) ==
    SearchCall(p, "SearchAvailableWithOptions", c, countryCode, opts, o)

\* Numbers.SearchAvailable
SearchAvailable(p, c, countryCode, o) ==
    SearchCall(p, "SearchAvailable", c, countryCode, NoOpts, o)

\* BuyPhoneNumber, the argument checks: the error returned, or Nil.
BuyCheck(countryCode, number) ==
    IF Len(countryCode) <= 0 THEN "Invalid country code field specified"
    ELSE IF Len(number) <= 0 THEN "Invalid number field specified"
    ELSE Nil

BuyUrl(c, countryCode, number) ==
    ApiRoot \o "/number/buy/" \o c.apiKey \o "/" \o c.apiSecret \o "/"
    \o countryCode \o "/" \o number

\* BuyPhoneNumber, the switch on resp.StatusCode.
BuyStatusResult(status) ==
    CASE status = 200 -> Returned(TRUE, Nil)
      [] status = 401 -> Returned(FALSE, "Wrong credentials")
      [] status = 420 -> Returned(FALSE, "Bad parameters")
      [] OTHER -> Returned(FALSE, "Other error")

\* Numbers.BuyPhoneNumber
BuyPhoneNumber(p, c, countryCode, number, o) ==
    /\ ~crashed
    /\ pc[p] = "idle"
    /\ call' = [call EXCEPT ![p] = [op |-> "BuyPhoneNumber", client |-> c,
                                    country |-> countryCode, number |-> number,
                                    opts |-> NoOpts]]
    /\ IF BuyCheck(countryCode, number) # Nil
       THEN /\ ret' = [ret EXCEPT ![p] = Returned(FALSE, BuyCheck(countryCode, number))]
            /\ pc' = [pc EXCEPT ![p] = "done"]
            /\ UNCHANGED <<req, reply, crashed>>
       ELSE /\ req' = [req EXCEPT ![p] = PostRequest(BuyUrl(c, countryCode, number))]
            /\ reply' = [reply EXCEPT ![p] = o]
            /\ IF o.respNil
               THEN /\ pc' = [pc EXCEPT ![p] = "panic"]
                    /\ crashed' = TRUE
                    /\ ret' = ret
               ELSE /\ pc' = [pc EXCEPT ![p] = "done"]
                    /\ crashed' = crashed
                    /\ ret' = [ret EXCEPT ![p] =
                                  IF o.err # Nil THEN Returned(FALSE, o.err)
                                  ELSE BuyStatusResult(o.StatusCode)]
    /\ UNCHANGED <<msg, vals, form>>

\* The argument checks of a cancel without the check of the number.
CancelCheckCountryOnly(countryCode, number) ==
    IF Len(countryCode) <= 0 THEN "Invalid country code field specified"
    ELSE Nil

\* CancelPhoneNumber, the argument checks: the error returned, or Nil.
CancelCheck(countryCode, number) ==
    IF Len(countryCode) <= 0 THEN "Invalid country code field specified"
    ELSE IF Len(number) <= 0 THEN "Invalid number field specified"
    ELSE Nil

CancelUrl(c, countryCode, number) ==
    ApiRoot \o "/number/cancel/" \o c.apiKey \o "/" \o c.apiSecret \o "/"
    \o countryCode \o "/" \o number

\* The switch of a cancel without the case for 420.
CancelStatusResultNo420(status) ==
    CASE status = 200 -> Returned(TRUE, Nil)
      [] status = 401 -> Returned(FALSE, "Wrong credentials")
      [] OTHER -> Returned(FALSE, "Other error")

\* CancelPhoneNumber, the switch on resp.StatusCode.
CancelStatusResult(status) ==
    CASE status = 200 -> Returned(TRUE, Nil)
      [] status = 401 -> Returned(FALSE, "Wrong credentials")
      [] status = 420 -> Returned(FALSE, "Bad parameters")
      [] OTHER -> Returned(FALSE, "Other error")

\* Numbers.CancelPhoneNumber
CancelPhoneNumber(p, c, countryCode, number, o) ==
    /\ ~crashed
    /\ pc[p] = "idle"
    /\ call' = [call EXCEPT ![p] = [op |-> "CancelPhoneNumber", client |-> c,
                                    country |-> countryCode, number |-> number,
                                    opts |-> NoOpts]]
    /\ IF CancelCheck(countryCode, number) # Nil
       THEN /\ ret' = [ret EXCEPT ![p] = Returned(FALSE, CancelCheck(countryCode, number))]
            /\ pc' = [pc EXCEPT ![p] = "done"]
            /\ UNCHANGED <<req, reply, crashed>>
       ELSE /\ req' = [req EXCEPT ![p] = PostRequest(CancelUrl(c, countryCode, number))]
            /\ reply' = [reply EXCEPT ![p] = o]
            /\ IF o.respNil
               THEN /\ pc' = [pc EXCEPT ![p] = "panic"]
                    /\ crashed' = TRUE
                    /\ ret' = ret
               ELSE /\ pc' = [pc EXCEPT ![p] = "done"]
                    /\ crashed' = crashed
                    /\ ret' = [ret EXCEPT ![p] =
                                  IF o.err # Nil THEN Returned(FALSE, o.err)
                                  ELSE CancelStatusResult(o.StatusCode)]
    /\ UNCHANGED <<msg, vals, form>>

----------------------------------------------------------------------------
(* Inputs and specifications.                                              *)

Procs == {"p1", "p2"}

\* How far around MaxClientRefLen the client references of the inputs reach.
RefMargin == 1

\* The string of n copies of c.
RECURSIVE Repeat(_, _)
Repeat(c, n) ==
    IF n = 0 THEN ""
    ELSE IF n = 1 THEN c
    ELSE Repeat(c, n \div 2) \o Repeat(c, n - n \div 2)

ClientRefs ==
    {Repeat("r", n) :
        n \in {0} \cup ((MaxClientRefLen - RefMargin)..(MaxClientRefLen + RefMargin))}

MessageTypes == {Text, Binary, WAPPush, Unicode, VCal, VCard, ""}

\* The messages of the Send specification: every field Send's validation
\* reads varies, and the WAP-push validity with them.
SendMessages ==
    [apiKey : {""}, apiSecret : {""},
     From : {"", "Acme"}, To : {"", "447700900000"}, Type : MessageTypes,
     Text : {"", "hi there"}, StatusReportRequired : {0, 1},
     ClientReference : ClientRefs, NetworkCode : {""}, VCard : {""},
     VCal : {""}, TTL : {0, 3600}, Class : {Flash},
     Body : {<<>>, <<104, 105>>}, UDH : {<<>>, <<48, 53>>},
     Title : {"", "Offer"}, URL : {"", "http://a.b/c?d=1"},
     Validity : {0, 86400}]

\* The messages of the ToValues specification: every field varies.
ValuesMessages ==
    [apiKey : {""}, apiSecret : {""},
     From : {"", "Acme"}, To : {"", "447700900000"}, Type : {Text, Binary},
     Text : {"", "hi there"}, StatusReportRequired : {0, 1},
     ClientReference : {"", "order 17"}, NetworkCode : {"", "23410"},
     VCard : {"", "BEGIN:VCARD"}, VCal : {"", "BEGIN:VCALENDAR"},
     TTL : {0, -5, 3600}, Class : {Flash, Standard},
     Body : {<<>>, <<104, 105>>}, UDH : {<<>>, <<48, 53>>},
     Title : {"", "Offer"}, URL : {"", "http://a.b/c?d=1"},
     Validity : {0}]

TextMessage ==
    [apiKey |-> "", apiSecret |-> "", From |-> "Acme", To |-> "447700900000",
     Type |-> Text, Text |-> "hi there", StatusReportRequired |-> 0,
     ClientReference |-> "", NetworkCode |-> "", VCard |-> "", VCal |-> "",
     TTL |-> 0, Class |-> Flash, Body |-> <<>>, UDH |-> <<>>, Title |-> "",
     URL |-> "", Validity |-> 0]

StatusCodes == {200, 401, 420, 404, 500}

SendOutcomes ==
    {Refused, TooManyRedirects, Response(200, SendBodyOK),
     Response(200, SendBodyRejected), Response(502, BodyNotJSON)}

NumberOutcomes ==
    {Refused, TooManyRedirects}
    \cup {Response(s, b) : s \in StatusCodes, b \in {"", SearchBodyOK, BodyNotJSON}}

Countries == {"", "US"}
Numbers == {"", "12015550100"}
Patterns == {"", "1985", "19 8&5"}
SearchPatterns == {"", "0", "1"}
SearchOptions == [Pattern : Patterns, SearchPattern : SearchPatterns]

InitWith(messages) ==
    /\ msg \in messages
    /\ pc = [p \in Procs |-> "idle"]
    /\ call = [p \in Procs |-> NoCall]
    /\ vals = [p \in Procs |-> EmptyValues]
    /\ form = [p \in Procs |-> ""]
    /\ req = [p \in Procs |-> NoRequest]
    /\ reply = [p \in Procs |-> NoReply]
    /\ ret = [p \in Procs |-> NoReturn]
    /\ crashed = FALSE

\* Concurrent callers sharing one message: every operation, any interleaving.
Init == InitWith({TextMessage})

Next ==
    \E p \in Procs :
        \/ \E c \in Clients : SendValidate(p, c)
        \/ SendStampKey(p)
        \/ SendStampSecret(p)
        \/ SendToValues(p)
        \/ SendAddKey(p)
        \/ SendAddSecret(p)
        \/ \E o \in {Refused, Response(200, SendBodyOK)} : SendDo(p, o)
        \/ \E c \in Clients, o \in {Refused, Response(200, SearchBodyOK)} :
              SearchAvailable(p, c, "US", o)
        \/ \E c \in Clients, o \in {Refused, Response(200, SearchBodyOK)} :
              SearchAvailableWithOptions(p, c, "US",
                                         [Pattern |-> "1985", SearchPattern |-> "0"], o)
        \/ \E c \in Clients, o \in {Refused, Response(200, ""), Response(401, "")} :
              BuyPhoneNumber(p, c, "US", "12015550100", o)
        \/ \E c \in Clients, o \in {Refused, Response(200, "")} :
              CancelPhoneNumber(p, c, "US", "12015550100", o)
        \/ Return(p)

Spec == Init /\ [][Next]_vars

\* One caller sending one message again and again, through any client.
InitSend == InitWith(SendMessages)

NextSend ==
    \/ \E c \in Clients : SendValidate("p1", c)
    \/ SendStampKey("p1")
    \/ SendStampSecret("p1")
    \/ SendToValues("p1")
    \/ SendAddKey("p1")
    \/ SendAddSecret("p1")
    \/ \E o \in SendOutcomes : SendDo("p1", o)
    \/ Return("p1")

SpecSend == InitSend /\ [][NextSend]_vars

\* ToValues applied to every message.
InitValues == InitWith(ValuesMessages)

NextValues == ToValuesCall("p1")

SpecValues == InitValues /\ [][NextValues]_vars

\* One caller making number calls, with every argument and every answer.
InitNumbers == InitWith({TextMessage})

NextNumbers ==
    \/ \E c \in Clients, cc \in Countries, o \in NumberOutcomes :
          SearchAvailable("p1", c, cc, o)
    \/ \E c \in Clients, cc \in Countries, opts \in SearchOptions, o \in NumberOutcomes :
          SearchAvailableWithOptions("p1", c, cc, opts, o)
    \/ \E c \in Clients, cc \in Countries, n \in Numbers, o \in NumberOutcomes :
          BuyPhoneNumber("p1", c, cc, n, o)
    \/ \E c \in Clients, cc \in Countries, n \in Numbers, o \in NumberOutcomes :
          CancelPhoneNumber("p1", c, cc, n, o)
    \/ Return("p1")

SpecNumbers == InitNumbers /\ [][NextNumbers]_vars

----------------------------------------------------------------------------
(* Reading a request back, as the server does.                             *)

\* The positions of the character sep in s.
Positions(s, sep) == {i \in 1..Len(s) : SubSeq(s, i, i) = sep}

\* The pieces of s between the occurrences of sep.
Pieces(s, sep) ==
    LET cuts == {0, Len(s) + 1} \cup Positions(s, sep)
    IN  {SubSeq(s, a + 1, b - 1) :
            <<a, b>> \in {ab \in cuts \X cuts :
                            /\ ab[1] < ab[2]
                            /\ \A k \in cuts : ~(ab[1] < k /\ k < ab[2])}}

\* The "key=value" pairs of a form-encoded body or of a query string.
FormPairs(body) == IF body = "" THEN {} ELSE Pieces(body, "&")

\* The body carries key with this value.
FormHas(body, key, value) ==
    (QueryEscape(key) \o "=" \o QueryEscape(value)) \in FormPairs(body)

HasQuery(url) == Positions(url, "?") # {}

FirstQuery(url) == CHOOSE i \in Positions(url, "?") : \A j \in Positions(url, "?") : i <= j

\* The query string of a URL: what follows its first "?".
UrlQuery(url) ==
    IF HasQuery(url) THEN SubSeq(url, FirstQuery(url) + 1, Len(url)) ELSE ""

\* What stands before the query string.
UrlPath(url) ==
    IF HasQuery(url) THEN SubSeq(url, 1, FirstQuery(url) - 1) ELSE url

Sends(p) == call[p].op = "Send"
Issued(p) == req[p] # NoRequest
Done(p) == pc[p] = "done"

----------------------------------------------------------------------------
(* C1.  Send fails fast on its general preconditions: a message with an    *)
(* empty From, an empty To or a client reference longer than 40 characters *)
(* makes Send return a nil response and an error without any HTTP request  *)
(* (the call never gets past validation); a client reference of exactly 40 *)
(* characters is not rejected as too long.                                 *)
C1_SendFailsFast ==
    \A p \in Procs :
        Sends(p) =>
            /\ (msg.From = "" \/ msg.To = "" \/ Len(msg.ClientReference) > 40)
                  => /\ Done(p)
                     /\ ret[p].returned
                     /\ ret[p].val.nil
                     /\ ret[p].err # Nil
                     /\ ~Issued(p)
            /\ (Done(p) /\ Len(msg.ClientReference) = 40)
                  => ret[p].err # "Client reference too long"

C1_Witness ==
    /\ Sends("p1") /\ Done("p1")
    /\ msg.From # "" /\ msg.To # "" /\ Len(msg.ClientReference) = 41
    /\ ret["p1"].err = "Client reference too long"
    /\ ~Issued("p1")

(* C2.  Per-type validation, for a message that passes the general checks: *)
(* a unicode message without text, a binary message without body or        *)
(* without header, and a WAP-push message without URL or without title are *)
(* rejected with an error before any HTTP request; a text message passes   *)
(* validation, and its call ends only after the HTTP request.              *)
C2_TypeValidation ==
    \A p \in Procs :
        (Sends(p) /\ msg.From # "" /\ msg.To # "" /\ Len(msg.ClientReference) <= 40)
        => /\ ( \/ (msg.Type = "unicode" /\ msg.Text = "")
                \/ (msg.Type = "binary" /\ (msg.Body = <<>> \/ msg.UDH = <<>>))
                \/ (msg.Type = "wappush" /\ (msg.URL = "" \/ msg.Title = "")) )
              => /\ Done(p)
                 /\ ret[p].val.nil
                 /\ ret[p].err # Nil
                 /\ ~Issued(p)
           /\ (msg.Type = "text" /\ Done(p)) => Issued(p)

C2_Witness ==
    /\ Sends("p1") /\ Done("p1")
    /\ msg.From # "" /\ msg.To # "" /\ msg.ClientReference = ""
    /\ msg.Type = "binary" /\ msg.Body # <<>> /\ msg.UDH = <<>>
    /\ ret["p1"].err = "Invalid binary message"
    /\ ~Issued("p1")

\* The optional keys of the form, each with the test that its field is set.
OptionalKeySet(m) ==
    {k \in {"text", "status-report-req", "client-ref", "network-code", "vcard",
            "vcal", "ttl", "body", "udh"} :
        CASE k = "text" -> m.Text # ""
          [] k = "status-report-req" -> m.StatusReportRequired # 0
          [] k = "client-ref" -> m.ClientReference # ""
          [] k = "network-code" -> m.NetworkCode # ""
          [] k = "vcard" -> m.VCard # ""
          [] k = "vcal" -> m.VCal # ""
          [] k = "ttl" -> m.TTL # 0
          [] k = "body" -> m.Body # <<>>
          [] k = "udh" -> m.UDH # <<>>}

(* C3.  The keys of ToValues are exactly from, to and type plus each       *)
(* optional key whose field is non-empty or non-zero, and no optional key  *)
(* carries an empty value.                                                 *)
C3_ToValuesKeys ==
    \A p \in Procs :
        (Done(p) /\ call[p].op = "ToValues")
        => /\ DOMAIN vals[p] = {"from", "to", "type"} \cup OptionalKeySet(msg)
           /\ \A k \in DOMAIN vals[p] \ {"from", "to", "type"} :
                 \A i \in 1..Len(vals[p][k]) : vals[p][k][i] # ""

C3_Witness ==
    /\ Done("p1") /\ call["p1"].op = "ToValues"
    /\ msg.Text = "" /\ msg.TTL = -5 /\ msg.Body # <<>> /\ msg.VCard = ""
    /\ msg.From = ""
    /\ vals["p1"]["ttl"] = <<"-5">>
    /\ "text" \notin DOMAIN vals["p1"]

\* Every optional field of a message that is set, as the key and the value
\* the form should carry (the message class apart).
OptionalFields(m) ==
    {kv \in {<<"text", m.Text>>,
             <<"status-report-req", Itoa(m.StatusReportRequired)>>,
             <<"client-ref", m.ClientReference>>,
             <<"network-code", m.NetworkCode>>,
             <<"vcard", m.VCard>>,
             <<"vcal", m.VCal>>,
             <<"ttl", Itoa(m.TTL)>>,
             <<"body", BytesToString(m.Body)>>,
             <<"udh", BytesToString(m.UDH)>>,
             <<"title", m.Title>>,
             <<"url", m.URL>>,
             <<"validity", Itoa(m.Validity)>>} :
        kv[2] # "" /\ ~(kv[1] \in {"status-report-req", "ttl", "validity"} /\ kv[2] = "0")}

(* C4.  Every non-empty optional field of the message other than the       *)
(* message class is in the form body Send posts; stated for the WAP-push   *)
(* message that passed validation: its title and its URL (and its validity *)
(* when non-zero), like its other optional fields, are pairs of the body.  *)
C4_OptionalFieldsOnWire ==
    \A p \in Procs :
        (Sends(p) /\ Issued(p) /\ msg.Type = "wappush")
        => \A kv \in OptionalFields(msg) : FormHas(req[p].body, kv[1], kv[2])

BuysOrCancels(p) == call[p].op \in {"BuyPhoneNumber", "CancelPhoneNumber"}
Searches(p) == call[p].op \in {"SearchAvailable", "SearchAvailableWithOptions"}

\* client.Do returned a response and no error.
GotResponse(p) == Issued(p) /\ reply[p].err = Nil /\ ~reply[p].respNil

\* client.Do returned an error.
TransportFailed(p) == Issued(p) /\ reply[p].err # Nil

(* C5.  A buy or a cancel with non-empty country and number that got an    *)
(* HTTP response (client.Do returned no error) returns what the status     *)
(* code alone decides, the same for both operations: 200 gives (true, no   *)
(* error), 401 (false, "Wrong credentials"), 420 (false, "Bad              *)
(* parameters"), any other status (false, "Other error"); whatever the     *)
(* body, and success is true exactly when the error is nil.                *)
C5_StatusDecidesResult ==
    \A p \in Procs :
        (BuysOrCancels(p) /\ GotResponse(p))
        => /\ Done(p)
           /\ ret[p].returned
           /\ ret[p].val = (reply[p].StatusCode = 200)
           /\ ret[p].err = (CASE reply[p].StatusCode = 200 -> Nil
                              [] reply[p].StatusCode = 401 -> "Wrong credentials"
                              [] reply[p].StatusCode = 420 -> "Bad parameters"
                              [] OTHER -> "Other error")
           /\ (ret[p].val <=> ret[p].err = Nil)

C5_Witness ==
    /\ call["p1"].op = "CancelPhoneNumber" /\ Done("p1") /\ GotResponse("p1")
    /\ reply["p1"].StatusCode = 420 /\ reply["p1"].Body # ""
    /\ ret["p1"].val = FALSE /\ ret["p1"].err = "Bad parameters"

\* The URL SearchAvailable(country) requests through client c.
PlainSearchUrl(c, country) ==
    "https://rest.nexmo.com/number/search/" \o c.apiKey \o "/" \o c.apiSecret
    \o "/" \o country

(* C6.  Both-or-neither: the URL of a search with options carries the      *)
(* pattern and the search_pattern parameters when both options are         *)
(* non-empty, and no query string at all when one of them is empty: it is  *)
(* then the URL SearchAvailable(country) requests.                         *)
C6_BothOrNeither ==
    \A p \in Procs :
        (Searches(p) /\ Issued(p))
        => IF call[p].opts.Pattern # "" /\ call[p].opts.SearchPattern # ""
           THEN /\ FormHas(UrlQuery(req[p].url), "pattern", call[p].opts.Pattern)
                /\ FormHas(UrlQuery(req[p].url), "search_pattern",
                           call[p].opts.SearchPattern)
                /\ UrlPath(req[p].url)
                      = PlainSearchUrl(call[p].client, call[p].country)
           ELSE /\ ~HasQuery(req[p].url)
                /\ req[p].url = PlainSearchUrl(call[p].client, call[p].country)

C6_Witness ==
    /\ call["p1"].op = "SearchAvailableWithOptions" /\ Issued("p1")
    /\ call["p1"].opts.Pattern = "1985" /\ call["p1"].opts.SearchPattern = ""
    /\ req["p1"].url = "https://rest.nexmo.com/number/search/keyA/secretA/US"

(* C7.  Number operations validate before any network call: a buy or a     *)
(* cancel with an empty country or an empty number returns (false, error), *)
(* a search with an empty country returns an error and the empty response, *)
(* each without an HTTP request; with country and number both empty the    *)
(* error is the country's.                                                 *)
C7_NumbersValidateFirst ==
    \A p \in Procs :
        /\ (BuysOrCancels(p) /\ (call[p].country = "" \/ call[p].number = ""))
           => /\ Done(p)
              /\ ret[p].val = FALSE
              /\ ret[p].err # Nil
              /\ ~Issued(p)
              /\ call[p].country = ""
                    => ret[p].err = "Invalid country code field specified"
        /\ (Searches(p) /\ call[p].country = "")
           => /\ Done(p)
              /\ ret[p].val = [Count |-> 0, Numbers |-> <<>>]
              /\ ret[p].err # Nil
              /\ ~Issued(p)

C7_Witness ==
    /\ call["p1"].op = "CancelPhoneNumber" /\ Done("p1")
    /\ call["p1"].country = "US" /\ call["p1"].number = ""
    /\ ret["p1"].val = FALSE /\ ret["p1"].err = "Invalid number field specified"
    /\ ~Issued("p1")

(* C8.  A transport error is returned to the caller: when client.Do fails, *)
(* the call ends normally and returns that error unchanged, and the        *)
(* process does not crash.                                                 *)
C8_TransportErrorReturned ==
    \A p \in Procs :
        TransportFailed(p)
        => /\ ~crashed
           /\ Done(p)
           /\ ret[p].returned
           /\ ret[p].err = reply[p].err

(* C9.  Calls interleave freely: whatever the interleaving, the request of *)
(* a Send through a client that does not use OAuth carries the key and the *)
(* secret of that client.                                                  *)
C9_RequestCarriesOwnCredentials ==
    \A p \in Procs :
        (Sends(p) /\ Issued(p) /\ ~call[p].client.useOauth)
        => /\ FormHas(req[p].body, "api_key", call[p].client.apiKey)
           /\ FormHas(req[p].body, "api_secret", call[p].client.apiSecret)

(* C10.  Credentials are sent only on behalf of a non-OAuth client: after  *)
(* any sequence of Send calls on the message, the request of a Send        *)
(* through an OAuth client carries no client's key or secret, and the      *)
(* request of a Send through another client carries that client's.         *)
C10_CredentialsOnlyForNonOauth ==
    \A p \in Procs :
        (Sends(p) /\ Issued(p))
        => IF call[p].client.useOauth
           THEN \A c \in Clients :
                    /\ ~FormHas(req[p].body, "api_key", c.apiKey)
                    /\ ~FormHas(req[p].body, "api_secret", c.apiSecret)
           ELSE /\ FormHas(req[p].body, "api_key", call[p].client.apiKey)
                /\ FormHas(req[p].body, "api_secret", call[p].client.apiSecret)
=============================================================================
